---- MODULE Spec2Model ----
(***************************************************************************)
(* Budget-flow graph pipeline of the Tokyo 23-ward tourism budget          *)
(* visualizer: the link pre-processing of SankeyChart (GraphValidator)     *)
(* and the per-city cache of App (CacheStore).                             *)
(***************************************************************************)
EXTENDS Integers, Sequences, FiniteSets, TLC

(***************************************************************************)
(* Bounds of the model.                                                    *)
(***************************************************************************)
\* longest candidate link list given to the validator
MaxLinks == 3

\* number of fetchCityBudget invocations followed in one run of App
MaxCalls == 3

\* last reading of the clock (Date.now()) followed in one run of App
MaxNow == 1

(***************************************************************************)
(* types.ts                                                                *)
(***************************************************************************)
\* node ids that occur in candidate graphs (three ids of Scenario A)
Ids == {"rev_a", "rev_b", "exp_c"}

\* the revenue ids among them: id.startsWith('rev_')
RevIds == {"rev_a", "rev_b"}

\* SankeyNode: {id, name}
SankeyNode(i) == [id |-> i, name |-> i]

\* SankeyLink: {source, target, value}
SankeyLink(s, t, v) == [source |-> s, target |-> t, value |-> v]

\* the candidate links the inputs are built from: every pair of ids with
\* value 100, and the revenue links into exp_c also with value 50
Links ==
  {SankeyLink(s, t, 100) : s \in Ids, t \in Ids}
  \cup {SankeyLink(s, "exp_c", 50) : s \in RevIds}

\* a node list holding the ids of S, in a fixed order
RECURSIVE NodeList(_)
NodeList(S) ==
  IF S = {} THEN <<>>
  ELSE LET i == CHOOSE x \in S : TRUE
       IN  <<SankeyNode(i)>> \o NodeList(S \ {i})

\* SankeyData: {nodes, links}
SankeyData(ns, ls) == [nodes |-> ns, links |-> ls]

\* Scenario A of the specification
ScenarioA ==
  SankeyData(NodeList({"rev_a", "rev_b", "exp_c"}),
             << SankeyLink("rev_a", "exp_c", 100),
                SankeyLink("rev_b", "exp_c", 50),
                SankeyLink("exp_c", "rev_a", 999) >>)

\* the graphs handed to SankeyChart as its data prop
GraphInputs ==
  { SankeyData(NodeList(S), ls) :
      S \in SUBSET Ids,
      ls \in UNION { [1..n -> Links] : n \in 0..MaxLinks } }
  \cup {ScenarioA}

(***************************************************************************)
(* components/SankeyChart.tsx: link pre-processing of the layout effect    *)
(***************************************************************************)
\* nodesMap: the keys set by data.nodes.forEach(node => nodesMap.set(node.id, []))
nodesMap(data) == { data.nodes[k].id : k \in 1..Len(data.nodes) }

\* adj after data.nodes.forEach(n => adj.set(n.id, []))
EmptyAdj(data) == [i \in nodesMap(data) |-> <<>>]

\* adj.get(curr) || []
Neighbors(adj, curr) == IF curr \in DOMAIN adj THEN adj[curr] ELSE <<>>

\* the while loop of wouldCreateCycle: stack.pop() takes the last element
RECURSIVE CycleSearch(_, _, _, _)
CycleSearch(adj, source, stack, visited) ==
  IF Len(stack) = 0 THEN FALSE
  ELSE LET curr == stack[Len(stack)]
           rest == SubSeq(stack, 1, Len(stack) - 1)
       IN  IF curr = source THEN TRUE
           ELSE IF curr \notin visited
                THEN CycleSearch(adj, source, rest \o Neighbors(adj, curr),
                                 visited \cup {curr})
                ELSE CycleSearch(adj, source, rest, visited)

\* the number of times the body of the while loop runs
RECURSIVE SearchSteps(_, _, _, _)
SearchSteps(adj, source, stack, visited) ==
  IF Len(stack) = 0 THEN 0
  ELSE LET curr == stack[Len(stack)]
           rest == SubSeq(stack, 1, Len(stack) - 1)
       IN  IF curr = source THEN 1
           ELSE IF curr \notin visited
                THEN 1 + SearchSteps(adj, source, rest \o Neighbors(adj, curr),
                                     visited \cup {curr})
                ELSE 1 + SearchSteps(adj, source, rest, visited)

\* variant: the search starts at source and looks for target
wouldCreateCycle_fromSource(adj, source, target) ==
  CycleSearch(adj, target, <<source>>, {})

\* variant: target is marked visited before the search starts
wouldCreateCycle_premarked(adj, source, target) ==
  CycleSearch(adj, source, <<target>>, {target})

\* variant: the popped node is compared with target
wouldCreateCycle_vsTarget(adj, source, target) ==
  CycleSearch(adj, target, <<target>>, {})

\* variant: only the neighbors of target are compared with source
wouldCreateCycle_direct(adj, source, target) ==
  \E k \in DOMAIN Neighbors(adj, target) : Neighbors(adj, target)[k] = source

\* variant: a target that has links of its own counts as leading back
wouldCreateCycle_busyTarget(adj, source, target) ==
  \/ CycleSearch(adj, source, <<target>>, {})
  \/ Len(Neighbors(adj, target)) > 0

\* wouldCreateCycle(source, target) over the adjacency built so far
wouldCreateCycle(adj, source, target) ==
  CycleSearch(adj, source, <<target>>, {})

\* link.source === link.target
IsSelfLoop(link) == link.source = link.target

\* variant: a link is dropped only when both endpoints are unknown
IsDangling_both(nm, link) == link.source \notin nm /\ link.target \notin nm

\* !nodesMap.has(link.source) || !nodesMap.has(link.target)
IsDangling(nm, link) == link.source \notin nm \/ link.target \notin nm

\* variant: the copy takes the endpoints only
CopyLink_noValue(link) == [source |-> link.source, target |-> link.target,
                           value |-> 0]

\* the object pushed to validLinks: { ...link }
CopyLink(link) == [source |-> link.source, target |-> link.target,
                   value |-> link.value]

\* variant: validLinks.unshift
PushValid_unshift(valid, link) == <<CopyLink(link)>> \o valid

\* validLinks.push({ ...link })
PushValid(valid, link) == Append(valid, CopyLink(link))

\* adj.get(link.source)?.push(link.target)
PushAdj(adj, link) ==
  IF link.source \in DOMAIN adj
  THEN [adj EXCEPT ![link.source] = Append(@, link.target)]
  ELSE adj

\* data.links.forEach(link => ...) from candidate k on, with the validLinks
\* and adj accumulated by the candidates before k
RECURSIVE LinkFilter(_, _, _, _, _)
LinkFilter(links, nm, k, valid, adj) ==
  IF k > Len(links) THEN valid
  ELSE LET link == links[k]
       IN  IF IsSelfLoop(link) THEN LinkFilter(links, nm, k + 1, valid, adj)
           ELSE IF IsDangling(nm, link)
                THEN LinkFilter(links, nm, k + 1, valid, adj)
           ELSE IF ~ wouldCreateCycle(adj, link.source, link.target)
                THEN LinkFilter(links, nm, k + 1,
                                PushValid(valid, link),
                                PushAdj(adj, link))
                ELSE LinkFilter(links, nm, k + 1, valid, adj)

\* validLinks at the end of the pre-processing
GraphValidator(data) ==
  LinkFilter(data.links, nodesMap(data), 1, <<>>, EmptyAdj(data))

(***************************************************************************)
(* types.ts, services/geminiService.ts: what the fetcher yields            *)
(***************************************************************************)
\* City: two of the 23 wards; "Setagaya" stands for the initial selection
Cities == {"Setagaya", "Minato"}

\* BudgetResponse: {data, explanation, sources}
BudgetResponse(d, e) == [data |-> d, explanation |-> e, sources |-> <<>>]

\* the responses fetchCityBudget resolves with: a graph whose links all name
\* known nodes, which the id filter keeps whole although two of them are
\* opposite, and the empty graph of a text without payload
FetchedBudgets ==
  { BudgetResponse(SankeyData(NodeList({"rev_a", "exp_c"}),
                              <<SankeyLink("rev_a", "exp_c", 100),
                                SankeyLink("exp_c", "rev_a", 100)>>), "parsed"),
    BudgetResponse(SankeyData(<<>>, <<>>), "text only") }

\* the ways a fetchCityBudget call fails: no API key, an SDK error with
\* status 429, an SDK error whose message mentions quota, any other error
Failures == {"missing_key", "status_429", "quota_message", "other"}

\* the message of the Error that fetchCityBudget throws
ThrownMessage(f) ==
  CASE f = "missing_key"   -> "API Key is missing."
    [] f = "status_429"    -> "Quota exceeded: 429"
    [] f = "quota_message" -> "exceeded your current quota"
    [] OTHER               -> "fetch failed"

\* err.message?.includes('429') || err.message?.includes('quota')
IsQuotaMessage(m) == m \in {"Quota exceeded: 429", "exceeded your current quota"}

(***************************************************************************)
(* App.tsx: cache, persistence, loadData                                   *)
(***************************************************************************)
\* a cache entry: { ...result, timestamp }
CacheEntry(result, t) ==
  [data |-> result.data, explanation |-> result.explanation,
   sources |-> result.sources, timestamp |-> t]

\* JavaScript values that are not objects with named members; an object is a
\* function on its member names, a string holds the sequence of its pieces
Null == [js |-> "null"]
Undefined == [js |-> "undefined"]
Num(n) == [js |-> "number", v |-> n]
Str(x) == [js |-> "string", v |-> x]
Bool(b) == [js |-> "boolean", v |-> b]
Arr(items) == [js |-> "array", items |-> items]

\* v is an object with named members
IsObject(v) == "js" \notin DOMAIN v

\* v in a condition: null, undefined, 0, '' and false are falsy
Truthy(v) ==
  IF IsObject(v) THEN TRUE
  ELSE CASE v.js \in {"null", "undefined"} -> FALSE
         [] v.js = "number"  -> v.v # 0
         [] v.js = "string"  -> v.v # <<>>
         [] v.js = "boolean" -> v.v
         [] OTHER            -> TRUE

\* v[k]: TypeError on null and undefined, the member of an object that has
\* it, undefined otherwise (k is never an index or a built-in member)
Throws(v) == ~ IsObject(v) /\ v.js \in {"null", "undefined"}
Member(v, k) == IF IsObject(v) /\ k \in DOMAIN v THEN v[k] ELSE Undefined

\* a text that is not the JSON of an object
RawText(x) == [text |-> x]

\* JSON.parse of such a text, where it is JSON
ParsedText ==
  [ x \in {"null", "0", "5", "true", "false", "[]", "[1]", "\"abc\""} |->
      CASE x = "null"  -> Null
        [] x = "0"     -> Num(0)
        [] x = "5"     -> Num(5)
        [] x = "true"  -> Bool(TRUE)
        [] x = "false" -> Bool(FALSE)
        [] x = "[]"    -> Arr(<<>>)
        [] x = "[1]"   -> Arr(<<Num(1)>>)
        [] OTHER       -> Str(<<"abc">>) ]

\* JSON.parse(blob) returns a value; it throws SyntaxError otherwise
IsJSON(blob) == "members" \in DOMAIN blob \/ blob.text \in DOMAIN ParsedText

\* variant: the entries are written without their timestamp
JSON_stringify_noTimestamp(c) ==
  [members |-> { <<k, [data |-> c[k].data, explanation |-> c[k].explanation,
                       sources |-> c[k].sources]>> : k \in DOMAIN c }]

\* JSON.stringify(cache): one member per key that has an entry
JSON_stringify(c) == [members |-> { <<k, c[k]>> : k \in DOMAIN c }]

\* JSON.parse of a blob that is JSON: the object with the members of the
\* text, or the value the text denotes
JSON_parse(blob) ==
  IF "members" \in DOMAIN blob
  THEN [k \in { m[1] : m \in blob.members } |->
          (CHOOSE m \in blob.members : m[1] = k)[2]]
  ELSE ParsedText[blob.text]

\* the response an earlier session has fetched
StoredBudget ==
  BudgetResponse(SankeyData(NodeList({"rev_b", "exp_c"}),
                            <<SankeyLink("rev_b", "exp_c", 50)>>), "stored")

\* the caches an earlier session can have persisted, written at time 0
StoredCaches ==
  { [k \in S |-> CacheEntry(StoredBudget, 0)] : S \in SUBSET Cities }

\* localStorage[CACHE_KEY] at start: no item, or the blob of an earlier session
InitialStorage == {<<>>} \cup { <<JSON_stringify(c)>> : c \in StoredCaches }

\* the useState initializer of cache:
\* try { saved ? JSON.parse(saved) : {} } catch (e) { {} }
\* (getItem gives null for no item; null and '' are falsy)
InitialCache(saved) ==
  IF Len(saved) = 0 \/ saved[1] = RawText("") THEN <<>>
  ELSE IF ~ IsJSON(saved[1]) THEN <<>>
  ELSE JSON_parse(saved[1])

\* budgetInfo: cache[selectedCity] || null
budgetInfo(c, city) ==
  LET e == Member(c, city) IN IF Truthy(e) THEN e ELSE Null

\* the first render throws TypeError: cache[selectedCity] on a cache that is
\* null, or budgetInfo?.data.links (totalBudget) on a budgetInfo without data
RenderThrows(c, city) ==
  \/ Throws(c)
  \/ /\ ~ Throws(budgetInfo(c, city))
     /\ Throws(Member(budgetInfo(c, city), "data"))

\* cache[city] is truthy
HasEntry(c, city) == city \in DOMAIN c

\* variant: the updater builds the object from the cache of the closure
CacheUpdater_closure(prev, closure, city, entry) ==
  [k \in DOMAIN closure \cup {city} |-> IF k = city THEN entry ELSE closure[k]]

\* variant: the updater forgets the spread of prev
CacheUpdater_noSpread(prev, closure, city, entry) ==
  [k \in {city} |-> entry]

\* variant: an entry that exists is kept
CacheUpdater_keepFirst(prev, closure, city, entry) ==
  [k \in DOMAIN prev \cup {city} |->
     IF k \in DOMAIN prev THEN prev[k] ELSE entry]

\* prev => ({ ...prev, [city]: entry }); closure is the cache loadData closes over
CacheUpdater(prev, closure, city, entry) ==
  [k \in DOMAIN prev \cup {city} |-> IF k = city THEN entry ELSE prev[k]]

\* variant: a non-forced call fetches whether or not the entry exists
IsCacheHit_never(c, city, force) == FALSE

\* if (!force && cache[city])
IsCacheHit(c, city, force) == ~ force /\ HasEntry(c, city)

\* the error state set by the catch block
LoadError(city, m) ==
  [message |-> IF IsQuotaMessage(m) THEN "quota" ELSE city,
   isQuota |-> IsQuotaMessage(m)]

\* variant: the catch block also drops the entry of the city
OnFetchFailure_dropEntry(p, city, m) ==
  [p EXCEPT !.error = <<LoadError(city, m)>>, !.loading = FALSE,
            !.cache = [k \in DOMAIN p.cache \ {city} |-> p.cache[k]],
            !.cacheSet = TRUE]

\* catch (err) { setError(...) } finally { setLoading(false) }
OnFetchFailure(p, city, m) ==
  [p EXCEPT !.error = <<LoadError(city, m)>>, !.loading = FALSE]

\* try { setCache(prev => ...) } finally { setLoading(false) }
OnFetchSuccess(p, closure, city, result, t) ==
  [p EXCEPT !.cache = CacheUpdater(p.cache, closure, city, CacheEntry(result, t)),
            !.cacheSet = TRUE,
            !.loading = FALSE]

(***************************************************************************)
(* services/geminiService.ts: from the response text to the BudgetResponse  *)
(*                                                                         *)
(* A text is a sequence of pieces: the two braces, a whitespace character, *)
(* a character of prose, and members of a JSON object, each written whole  *)
(* with the comma it needs.  A sequence of members between two braces is   *)
(* the JSON text of an object; any other piece between them, a brace       *)
(* included, makes JSON.parse throw.                                       *)
(***************************************************************************)
\* longest response text
MaxText == 5

\* the members: "foo":1, "explanation":"e", "explanation":"", "nodes":5,
\* and "nodes":[...],"links":[...] with two nodes and three links
MemberPieces == {"foo", "explanation", "explanation_empty", "nodes_5", "graph"}

\* the pieces of a text
Pieces == {"{", "}", " ", "x"} \cup MemberPieces

\* the nodes and links of the piece "graph": two opposite links between the
\* two nodes and a link to an id that no node has
PayloadNodes == NodeList({"rev_a", "exp_c"})
PayloadLinks == << SankeyLink("rev_a", "exp_c", 100),
                   SankeyLink("exp_c", "rev_a", 100),
                   SankeyLink("rev_a", "cat_x", 30) >>

\* the members a piece gives to the object
PieceMembers(piece) ==
  CASE piece = "foo"               -> [foo |-> Num(1)]
    [] piece = "explanation"       -> [explanation |-> Str(<<"e">>)]
    [] piece = "explanation_empty" -> [explanation |-> Str(<<>>)]
    [] piece = "nodes_5"           -> [nodes |-> Num(5)]
    [] piece = "graph"             -> [nodes |-> Arr(PayloadNodes),
                                       links |-> Arr(PayloadLinks)]
    [] OTHER                       -> <<>>

\* the node and link objects of "graph" have braces of their own: the texts
\* taken here have that piece between a brace that opens and one that closes
WellPlaced(text) ==
  \A k \in 1..Len(text) :
    text[k] = "graph" =>
      /\ \E i \in 1..(k - 1) : text[i] = "{"
      /\ \E j \in (k + 1)..Len(text) : text[j] = "}"

\* response.text || ""
ResponseTexts ==
  { t \in UNION { [1..n -> Pieces] : n \in 0..MaxText } : WellPlaced(t) }

\* groundingChunks: one chunk with web, one without
GroundingChunks ==
  << [web |-> <<[title |-> "budget", uri |-> "u1"]>>], [web |-> <<>>] >>

\* groundingChunks.filter(chunk => chunk.web).map(chunk => ({title, uri}))
RECURSIVE Sources(_)
Sources(chunks) ==
  IF Len(chunks) = 0 THEN <<>>
  ELSE (IF Len(Head(chunks).web) > 0
        THEN << [title |-> Head(chunks).web[1].title,
                 uri |-> Head(chunks).web[1].uri] >>
        ELSE <<>>) \o Sources(Tail(chunks))

\* the positions of a piece in a text
Positions(text, piece) == { k \in 1..Len(text) : text[k] = piece }

\* smallest and largest element of a non-empty set of numbers
Least(S) == CHOOSE x \in S : \A y \in S : x <= y
Greatest(S) == CHOOSE x \in S : \A y \in S : x >= y

\* variant: the match ends at the first brace that closes
jsonMatch_lazy(text) ==
  LET opens == Positions(text, "{")
  IN  IF opens = {} THEN <<>>
      ELSE LET closes == { k \in Positions(text, "}") : k > Least(opens) }
           IN  IF closes = {} THEN <<>>
               ELSE <<SubSeq(text, Least(opens), Least(closes))>>

\* text.match(/\{[\s\S]*\}/): null, or the text from the first brace that
\* opens to the last brace that closes after it
jsonMatch(text) ==
  LET opens == Positions(text, "{")
  IN  IF opens = {} THEN <<>>
      ELSE LET closes == { k \in Positions(text, "}") : k > Least(opens) }
           IN  IF closes = {} THEN <<>>
               ELSE <<SubSeq(text, Least(opens), Greatest(closes))>>

\* JSON.parse(jsonMatch[0]) returns: between the two braces stand members
\* and whitespace only
Decodes(match) ==
  \A k \in 2..(Len(match) - 1) : match[k] \in MemberPieces \cup {" "}

\* the object JSON.parse builds from the pieces k.. of the match, a later
\* member replacing an earlier one of its name
RECURSIVE ParseMembers(_, _, _)
ParseMembers(match, k, obj) ==
  IF k >= Len(match) THEN obj
  ELSE LET m == PieceMembers(match[k])
       IN  ParseMembers(match, k + 1,
             [n \in DOMAIN obj \cup DOMAIN m |->
                IF n \in DOMAIN m THEN m[n] ELSE obj[n]])

\* JSON.parse(jsonMatch[0]) where it returns
ParseObject(match) == ParseMembers(match, 2, <<>>)

\* text occurs in whole at position k of s
OccursAt(s, sub, k) ==
  k + Len(sub) - 1 <= Len(s) /\ SubSeq(s, k, k + Len(sub) - 1) = sub

\* s.replace(sub, ''): the first occurrence of sub is taken out
ReplaceFirst(s, sub) ==
  LET at == { k \in 1..Len(s) : OccursAt(s, sub, k) }
  IN  IF at = {} THEN s
      ELSE SubSeq(s, 1, Least(at) - 1)
           \o SubSeq(s, Least(at) + Len(sub), Len(s))

\* s.trim(): the whitespace at both ends is taken off
RECURSIVE Trim(_)
Trim(s) ==
  IF Len(s) = 0 THEN s
  ELSE IF Head(s) = " " THEN Trim(Tail(s))
  ELSE IF s[Len(s)] = " " THEN Trim(SubSeq(s, 1, Len(s) - 1))
  ELSE s

\* "データの解析に失敗しました。以下はAIの回答テキストです：\n\n"
ParseErrorPreamble == <<"parse failed:">>

\* a || []
OrEmptyArray(v) == IF Truthy(v) THEN v ELSE Arr(<<>>)

\* variant: the text is left out of the message
OnParseError_noText(text) ==
  [nodes |-> Arr(<<>>), links |-> Arr(<<>>), explanation |-> ParseErrorPreamble]

\* catch (e) of JSON.parse: budgetData stays empty, the explanation is the
\* message followed by the text
OnParseError(text) ==
  [nodes |-> Arr(<<>>), links |-> Arr(<<>>),
   explanation |-> ParseErrorPreamble \o text]

\* variant: the explanation keeps a default message
OnNoMatch_default(text) ==
  [nodes |-> Arr(<<>>), links |-> Arr(<<>>), explanation |-> <<"no data">>]

\* else branch of if (jsonMatch): explanation = text
OnNoMatch(text) ==
  [nodes |-> Arr(<<>>), links |-> Arr(<<>>), explanation |-> text]

\* variant: text.split('{')[0], the text before the first brace
FallbackExplanation_before(text, match) ==
  SubSeq(text, 1, Least(Positions(text, "{")) - 1)

\* text.replace(jsonMatch[0], '').trim()
FallbackExplanation(text, match) == Trim(ReplaceFirst(text, match))

\* budgetData and explanation when JSON.parse has returned parsed
OnParsed(text, match, parsed) ==
  LET told == Member(parsed, "explanation")
  IN  [nodes |-> OrEmptyArray(Member(parsed, "nodes")),
       links |-> OrEmptyArray(Member(parsed, "links")),
       explanation |-> IF Truthy(told) THEN told.v
                       ELSE FallbackExplanation(text, match)]

\* budgetData and explanation after lines 61-80
Extraction(text) ==
  LET found == jsonMatch(text)
  IN  IF Len(found) = 0 THEN OnNoMatch(text)
      ELSE IF ~ Decodes(found[1]) THEN OnParseError(text)
      ELSE OnParsed(text, found[1], ParseObject(found[1]))

\* v.map(...) or v.filter(...) throws TypeError: v is no array
NotAnArray(v) == IsObject(v) \/ v.js # "array"

\* budgetData.links.filter(l => nodeIds.has(l.source) && nodeIds.has(l.target))
IdFilter(nodes, links) ==
  LET nodeIds == { nodes[k].id : k \in 1..Len(nodes) }
  IN  SelectSeq(links, LAMBDA l : l.source \in nodeIds /\ l.target \in nodeIds)

\* what fetchCityBudget makes of the response text: the BudgetResponse it
\* returns, or the TypeError that lines 83-84 throw and line 91 throws again
fetchCityBudget(text, chunks) ==
  LET e == Extraction(text)
  IN  IF NotAnArray(e.nodes) \/ NotAnArray(e.links)
      THEN [thrown |-> "TypeError"]
      ELSE [data |-> SankeyData(e.nodes.items,
                                IdFilter(e.nodes.items, e.links.items)),
            explanation |-> e.explanation,
            sources |-> Sources(chunks)]

(***************************************************************************)
(* components/BudgetComparisonChart.tsx: chartData                         *)
(***************************************************************************)
\* the longest link list of a compared graph
MaxAggLinks == 3

\* cities of App.tsx, in the order of the array
cities == <<"Minato", "Setagaya">>

\* link.source.startsWith('rev_')
startsWith_rev(id) == id \in RevIds \cup {"rev_x"}

\* the name of the bucket of a link whose source is no node of the graph
\* (the literal at line 28)
DefaultName == "other revenue"

\* a node whose name is not its id
NamedNode(i, n) == [id |-> i, name |-> n]

\* the node lists of the compared graphs: two revenue nodes of one name, a
\* revenue node named like the default bucket, no node at all
CompareNodes ==
  { << NamedNode("rev_a", "tax"), NamedNode("rev_b", "tax"),
       NamedNode("exp_c", "welfare") >>,
    << NamedNode("rev_a", "tax"), NamedNode("rev_b", DefaultName),
       NamedNode("exp_c", "tax") >>,
    << >> }

\* the links of the compared graphs: revenue links of known and unknown
\* sources, of positive and negative value, and a link of another source
CompareLinks ==
  { SankeyLink("rev_a", "exp_c", 100), SankeyLink("rev_a", "exp_c", 50),
    SankeyLink("rev_b", "exp_c", 30), SankeyLink("rev_b", "exp_c", -100),
    SankeyLink("rev_x", "exp_c", 7), SankeyLink("exp_c", "rev_a", 999) }

\* the compared graphs
CompareGraphs ==
  { SankeyData(ns, ls) :
      ns \in CompareNodes,
      ls \in UNION { [1..n -> CompareLinks] : n \in 0..MaxAggLinks } }

\* what the member of the other city can be in the cache prop: the stored
\* entry, or what the start of App takes over from a blob that holds null,
\* a number or {} for the city
OtherEntries == {CacheEntry(StoredBudget, 0), Null, Num(5), << >>}

\* the cache prop: no entry, or one city with any compared graph and the
\* other city with no entry or with one of the other entries; or one city
\* with an entry that is no budget and the other city with none
CompareCaches ==
  { << >> }
  \cup { [d \in S |-> IF d = c
                      THEN CacheEntry(BudgetResponse(g, "parsed"), 0)
                      ELSE o] :
           <<c, S, g, o>> \in
             { x \in Cities \X (SUBSET Cities) \X CompareGraphs
                       \X OtherEntries :
                 /\ x[1] \in x[2]
                 /\ x[2] = {x[1]} => x[4] = CacheEntry(StoredBudget, 0) } }
  \cup { [d \in {c} |-> o] :
           c \in Cities, o \in OtherEntries \ {CacheEntry(StoredBudget, 0)} }

\* categoryMap.get(name) || 0; categoryMap is the sequence of its entries
\* in the order of insertion
GetOrZero(categoryMap, name) ==
  IF \E i \in DOMAIN categoryMap :
       categoryMap[i].name = name /\ categoryMap[i].value # 0
  THEN categoryMap[CHOOSE i \in DOMAIN categoryMap :
                     categoryMap[i].name = name].value
  ELSE 0

\* categoryMap.set(name, value)
MapSet(categoryMap, name, value) ==
  IF \E i \in DOMAIN categoryMap : categoryMap[i].name = name
  THEN [i \in DOMAIN categoryMap |->
          IF categoryMap[i].name = name
          THEN [name |-> name, value |-> value]
          ELSE categoryMap[i]]
  ELSE Append(categoryMap, [name |-> name, value |-> value])

\* lines 27-28: the name of the first node whose id is link.source
SourceName(nodes, link) ==
  IF \E i \in DOMAIN nodes : nodes[i].id = link.source
  THEN nodes[Least({i \in DOMAIN nodes : nodes[i].id = link.source})].name
  ELSE DefaultName

\* variant of line 29: the link's value replaces the bucket's
Accumulate_overwrite(categoryMap, name, link) ==
  MapSet(categoryMap, name, link.value)

\* line 29: the link's value is added to its bucket
Accumulate(categoryMap, name, link) ==
  MapSet(categoryMap, name, GetOrZero(categoryMap, name) + link.value)

\* lines 25-31: data.data.links.forEach from link k on
RECURSIVE GroupLinks(_, _, _)
GroupLinks(d, k, categoryMap) ==
  IF k > Len(d.links) THEN categoryMap
  ELSE LET link == d.links[k]
       IN  GroupLinks(d, k + 1,
             IF startsWith_rev(link.source)
             THEN Accumulate(categoryMap, SourceName(d.nodes, link), link)
             ELSE categoryMap)

\* line 34: categories.reduce((sum, c) => sum + c.value, 0) from entry k on
RECURSIVE Reduce(_, _, _)
Reduce(categories, k, sum) ==
  IF k > Len(categories) THEN sum
  ELSE Reduce(categories, k + 1, sum + categories[k].value)

\* lines 19-25: data.data.links throws TypeError when cache[city] is truthy
\* and has no member data
RowThrows(c, city) ==
  /\ Truthy(Member(c, city))
  /\ Throws(Member(Member(c, city), "data"))

\* lines 19-36: the row of one city whose entry does not throw
CityRow(c, city) ==
  IF ~ Truthy(Member(c, city))
  THEN [city |-> city, total |-> 0, categories |-> << >>]
  ELSE LET categories == GroupLinks(c[city].data, 1, << >>)
       IN  [city |-> city, total |-> Reduce(categories, 1, 0),
            categories |-> categories]

\* variant of line 37: (a, b) => a.total - b.total
InsertByTotal_rising(sorted, row) ==
  LET p == Least({i \in DOMAIN sorted : sorted[i].total > row.total}
                 \cup {Len(sorted) + 1})
  IN  SubSeq(sorted, 1, p - 1) \o <<row>> \o SubSeq(sorted, p, Len(sorted))

\* the place of a row in rows sorted by falling total: behind the rows that
\* do not compare after it
InsertByTotal(sorted, row) ==
  LET p == Least({i \in DOMAIN sorted : sorted[i].total < row.total}
                 \cup {Len(sorted) + 1})
  IN  SubSeq(sorted, 1, p - 1) \o <<row>> \o SubSeq(sorted, p, Len(sorted))

\* line 37: .sort((a, b) => b.total - a.total), a stable sort, from row k on
RECURSIVE SortByTotal(_, _, _)
SortByTotal(rows, k, sorted) ==
  IF k > Len(rows) THEN sorted
  ELSE SortByTotal(rows, k + 1, InsertByTotal(sorted, rows[k]))

\* the callback of cities.map throws for a city
ChartDataThrows(c, cs) == \E i \in DOMAIN cs : RowThrows(c, cs[i])

\* App.tsx, lines 48-53: totalBudget of a budgetInfo that is null or an entry
\* with data: the values of the links whose source starts with rev_, added
totalBudget(info) ==
  IF ~ Truthy(info) THEN 0
  ELSE Reduce(SelectSeq(info.data.links,
                        LAMBDA link : startsWith_rev(link.source)), 1, 0)

\* unnamed/part_002, lines 57-60: nodeSums, the values of the links added
\* for each source
nodeSums(links) ==
  [src \in { links[k].source : k \in DOMAIN links } |->
     Reduce(SelectSeq(links, LAMBDA l : l.source = src), 1, 0)]

\* unnamed/part_002, lines 51-62: totalBudget; without a link whose source
\* starts with rev_ it is the largest of nodeSums and 0
totalBudget_part002(info) ==
  IF ~ Truthy(info) THEN 0
  ELSE IF Len(info.data.links) = 0 THEN 0
  ELSE LET sourceLinks == SelectSeq(info.data.links,
                                    LAMBDA link : startsWith_rev(link.source))
           sums == { nodeSums(info.data.links)[src] :
                       src \in DOMAIN nodeSums(info.data.links) } \cup {0}
       IN  IF Len(sourceLinks) > 0 THEN Reduce(sourceLinks, 1, 0)
           ELSE Greatest(sums)

\* unnamed/part_001, line 25: the name of the bucket of a link whose target
\* is no node of the graph
DefaultName_part001 == "other"

\* unnamed/part_001, lines 24-25: the name of the first node whose id is
\* link.target
TargetName(nodes, link) ==
  IF \E i \in DOMAIN nodes : nodes[i].id = link.target
  THEN nodes[Least({i \in DOMAIN nodes : nodes[i].id = link.target})].name
  ELSE DefaultName_part001

\* unnamed/part_001, lines 22-28: data.data.links.forEach from link k on
RECURSIVE GroupLinks_part001(_, _, _)
GroupLinks_part001(d, k, categoryMap) ==
  IF k > Len(d.links) THEN categoryMap
  ELSE LET link == d.links[k]
       IN  GroupLinks_part001(d, k + 1,
             IF startsWith_rev(link.source)
             THEN Accumulate(categoryMap, TargetName(d.nodes, link), link)
             ELSE categoryMap)

\* unnamed/part_001, lines 18-33: the row of one city
CityRow_part001(c, city) ==
  IF ~ Truthy(Member(c, city))
  THEN [city |-> city, total |-> 0, categories |-> << >>]
  ELSE LET categories == GroupLinks_part001(c[city].data, 1, << >>)
       IN  [city |-> city, total |-> Reduce(categories, 1, 0),
            categories |-> categories]

\* unnamed/part_001, lines 16-35: chartData
chartData_part001(c, cs) ==
  SortByTotal([i \in DOMAIN cs |-> CityRow_part001(c, cs[i])], 1, << >>)

\* lines 42-45: the names of the buckets of all rows, each once
BucketNames(rows) ==
  UNION { { rows[i].categories[k].name : k \in DOMAIN rows[i].categories } :
            i \in DOMAIN rows }

\* the names of the model in the order of .sort(): by UTF-16 code units, the
\* default name behind the names in Latin letters
NameOrder == <<"exp_c", "rev_a", "rev_b", "tax", "welfare", DefaultName>>
Rank(n) == CHOOSE i \in DOMAIN NameOrder : NameOrder[i] = n

\* line 46: Array.from(names).sort()
RECURSIVE SortNames(_)
SortNames(S) ==
  IF S = {} THEN << >>
  ELSE LET m == CHOOSE x \in S : \A y \in S : Rank(x) <= Rank(y)
       IN  <<m>> \o SortNames(S \ {m})

\* lines 41-47: uniqueCategoryNames of the rows
UniqueNames(rows) == SortNames(BucketNames(rows))

\* variant: the memo is computed on mount only (dependencies [])
useMemo_mount(value, changed, memo) == memo

\* useMemo: the value is computed again when a dependency has changed
useMemo(value, changed, memo) == IF changed THEN value ELSE memo

\* the graphs a fetch puts into the cache while the comparison is shown
ChangedGraphs ==
  { SankeyData(<< >>, << >>),
    SankeyData(<< NamedNode("rev_a", "welfare"), NamedNode("exp_c", "tax") >>,
               << SankeyLink("rev_a", "exp_c", 50) >>) }

\* chartData where no row throws: one row for each city, sorted by falling
\* total
AggregationEngine(c, cs) ==
  SortByTotal([i \in DOMAIN cs |-> CityRow(c, cs[i])], 1, << >>)

(***************************************************************************)
(* State                                                                   *)
(***************************************************************************)
VARIABLES
  data,         \* the data prop of SankeyChart
  gvPhase,      \* position of the validator run
  validLinks,   \* validLinks of the effect run on data
  layoutNodes,  \* nodes handed to sankeyGenerator
  layoutLinks,  \* links handed to sankeyGenerator
  revalidated,  \* validLinks of a run on {nodes: data.nodes, links: validLinks}
  reordered,    \* data.links with two candidates exchanged
  validReordered, \* validLinks of a run on {nodes: data.nodes, links: reordered}
  selectedCity, \* App state as rendered: selectedCity
  viewMode,     \* App state as rendered: viewMode
  cache,        \* App state as rendered: cache, a function on the cached cities
  loading,      \* App state as rendered: loading
  error,        \* App state as rendered: error, <<>> for null
  pending,      \* the App state after the state updates not rendered yet
  flushSync,    \* an event handler has queued updates; they render before
                \* any other event
  effects,      \* the effects of the last render that have not run yet
  inflight,     \* the fetchCityBudget calls that have not settled
  nCalls,       \* number of fetchCityBudget calls so far
  now,          \* Date.now()
  storage,      \* localStorage[CACHE_KEY], <<>> for no item
  mounted,      \* App is mounted: no uncaught error has unmounted the tree
  lastDone,     \* the last settled fetchCityBudget call, <<>> before the first
  overtaken,    \* the pairs <<a, b>> of forced calls for one city where b has
                \* succeeded while a, still outstanding, was outstanding
  firedEarly,   \* a control that is disabled or hidden while loading has
                \* fired while setLoading(true) was queued and not rendered,
                \* or while the load effect had not run yet, and App has
                \* not been at rest since
  loadCause,    \* why the load effect that has not run yet was scheduled:
                \* "mount", "select" (selectedCity has changed), "cache"
                \* (only loadData has changed, with cache); "none" when no
                \* load effect is scheduled
  startPhase,   \* position of the start of App: "start" before the useState
                \* initializers, "initialized" after them, then "rendered"
                \* or, when the first render has thrown, "failed"
  responseText, \* response.text of the generateContent call
  exPhase,      \* position of fetchCityBudget after the call: "received",
                \* then "returned" or "thrown"
  extracted,    \* what fetchCityBudget returns or throws, <<>> before
  compareCache, \* the cache prop of BudgetComparisonChart
  aggPhase,     \* position of BudgetComparisonChart: "props" before its
                \* first render, "memo" once chartData is computed
  chartData,    \* chartData of BudgetComparisonChart, <<>> before
  uniqueCategoryNames, \* uniqueCategoryNames of BudgetComparisonChart
  prevNames     \* uniqueCategoryNames before the last change of the cache

gvVars == <<data, gvPhase, validLinks, layoutNodes, layoutLinks,
            revalidated, reordered, validReordered>>

appVars == <<selectedCity, viewMode, cache, loading, error, pending, flushSync,
             effects, inflight, nCalls, now, storage, mounted, lastDone,
             overtaken, loadCause, firedEarly>>

startVars == <<startPhase>>

exVars == <<responseText, exPhase, extracted>>

aggVars == <<compareCache, aggPhase, chartData, uniqueCategoryNames, prevNames>>

\* the variables a step of SankeyChart, a step of App, a step of the start
\* of App, a step of fetchCityBudget, and a step of BudgetComparisonChart
\* leaves alone
notChart == <<appVars, startVars, exVars, aggVars>>
notApp == <<gvVars, startVars, exVars, aggVars>>
notStart == <<gvVars, exVars, aggVars>>
notService == <<gvVars, appVars, startVars, aggVars>>
notCompare == <<gvVars, appVars, startVars, exVars>>

vars == <<gvVars, appVars, startVars, exVars, aggVars>>

(***************************************************************************)
(* SankeyChart: the layout effect                                          *)
(***************************************************************************)
\* fetchCityBudget with no call made
ServiceIdle ==
  /\ responseText = <<>>
  /\ exPhase = "idle"
  /\ extracted = <<>>

\* BudgetComparisonChart not rendered
CompareIdle ==
  /\ compareCache = <<>>
  /\ aggPhase = "idle"
  /\ chartData = <<>>
  /\ uniqueCategoryNames = <<>>
  /\ prevNames = <<>>

\* App before it is mounted
AppIdle ==
  /\ selectedCity = "Setagaya"
  /\ viewMode = "flow"
  /\ cache = <<>>
  /\ loading = FALSE
  /\ error = <<>>
  /\ pending = [selectedCity |-> "Setagaya", viewMode |-> "flow", cache |-> <<>>,
                cacheSet |-> FALSE, loading |-> FALSE, error |-> <<>>]
  /\ flushSync = FALSE
  /\ effects = {}
  /\ inflight = {}
  /\ nCalls = 0
  /\ now = 0
  /\ storage = <<>>
  /\ mounted = FALSE
  /\ lastDone = <<>>
  /\ overtaken = {}
  /\ loadCause = "none"
  /\ firedEarly = FALSE

GVInit ==
  /\ AppIdle
  /\ ServiceIdle
  /\ CompareIdle
  /\ startPhase = "start"
  /\ data \in GraphInputs
  /\ gvPhase = "mounted"
  /\ validLinks = <<>>
  /\ layoutNodes = <<>>
  /\ layoutLinks = <<>>
  /\ revalidated = <<>>
  /\ reordered = <<>>
  /\ validReordered = <<>>

\* useEffect with no node: if (!data.nodes.length) return
EffectSkip ==
  /\ gvPhase = "mounted"
  /\ Len(data.nodes) = 0
  /\ gvPhase' = "skipped"
  /\ UNCHANGED <<data, validLinks, layoutNodes, layoutLinks, revalidated,
                 reordered, validReordered>>
  /\ UNCHANGED notChart

\* useEffect: pre-processing, then sankeyGenerator on copies
EffectRun ==
  /\ gvPhase = "mounted"
  /\ Len(data.nodes) > 0
  /\ validLinks' = GraphValidator(data)
  /\ layoutNodes' = data.nodes
  /\ layoutLinks' = validLinks'
  /\ gvPhase' = "validated"
  /\ UNCHANGED <<data, revalidated, reordered, validReordered>>
  /\ UNCHANGED notChart

\* the effect run again with its own output as the link list
EffectRerun ==
  /\ gvPhase = "validated"
  /\ revalidated' = GraphValidator(SankeyData(data.nodes, validLinks))
  /\ gvPhase' = "revalidated"
  /\ UNCHANGED <<data, validLinks, layoutNodes, layoutLinks, reordered,
                 validReordered>>
  /\ UNCHANGED notChart

\* links with the candidates at positions i and j exchanged
Exchange(links, i, j) ==
  [k \in 1..Len(links) |->
     IF k = i THEN links[j] ELSE IF k = j THEN links[i] ELSE links[k]]

\* the effect run on the same candidates in another order
EffectReordered ==
  /\ gvPhase = "validated"
  /\ \E i \in 1..Len(data.links) : \E j \in (i + 1)..Len(data.links) :
       /\ reordered' = Exchange(data.links, i, j)
       /\ validReordered' = GraphValidator(SankeyData(data.nodes, reordered'))
  /\ gvPhase' = "reordered"
  /\ UNCHANGED <<data, validLinks, layoutNodes, layoutLinks, revalidated>>
  /\ UNCHANGED notChart

GVNext == EffectSkip \/ EffectRun \/ EffectRerun \/ EffectReordered

SpecGV == GVInit /\ [][GVNext]_vars

(***************************************************************************)
(* App: mount, render, effects, event handlers, settled fetches            *)
(*                                                                         *)
(* The closures and the JSX of App see the state of the last render        *)
(* (selectedCity, viewMode, cache, loading, error).  A state setter queues *)
(* an update; pending is the state the queued updates lead to, and Render  *)
(* makes it the rendered state.  The updates of an event handler are       *)
(* rendered before the next event (flushSync); the updates queued by an    *)
(* effect or by a settled fetch are rendered later, so an event can come  *)
(* in between.  The effects of a render run before the next render.  Once  *)
(* the tree is unmounted no state of App changes any more: the setters of  *)
(* the calls that settle afterwards have no effect.                        *)
(***************************************************************************)
\* SankeyChart with nothing to draw
ChartIdle ==
  /\ data = SankeyData(<<>>, <<>>)
  /\ gvPhase = "unmounted"
  /\ validLinks = <<>>
  /\ layoutNodes = <<>>
  /\ layoutLinks = <<>>
  /\ revalidated = <<>>
  /\ reordered = <<>>
  /\ validReordered = <<>>

\* the state of the first render: the useState initializers; both effects
\* of the mount are still to run
Init ==
  /\ ChartIdle
  /\ ServiceIdle
  /\ CompareIdle
  /\ startPhase = "rendered"
  /\ storage \in InitialStorage
  /\ selectedCity = "Setagaya"
  /\ viewMode = "flow"
  /\ cache = InitialCache(storage)
  /\ loading = FALSE
  /\ error = <<>>
  /\ pending = [selectedCity |-> selectedCity, viewMode |-> viewMode,
                cache |-> cache, cacheSet |-> FALSE,
                loading |-> loading, error |-> error]
  /\ flushSync = FALSE
  /\ effects = {"persist", "load"}
  /\ inflight = {}
  /\ nCalls = 0
  /\ now = 0
  /\ mounted = TRUE
  /\ lastDone = <<>>
  /\ overtaken = {}
  /\ loadCause = "mount"
  /\ firedEarly = FALSE

\* variant: loadData without setLoading(true)
LoadDataState_notLoading(p, city, force) == [p EXCEPT !.error = <<>>]

\* loadData(city, force) of the current render, on the queued state p:
\* the queued state it leaves
LoadDataState(p, city, force) ==
  IF IsCacheHit(cache, city, force)
  THEN [p EXCEPT !.error = <<>>]
  ELSE [p EXCEPT !.loading = TRUE, !.error = <<>>]

\* loadData(city, force) of the current render: the fetchCityBudget calls
\* outstanding after it
LoadDataCalls(city, force) ==
  IF IsCacheHit(cache, city, force)
  THEN inflight
  ELSE inflight \cup {[id |-> nCalls + 1, city |-> city, force |-> force,
                       closure |-> cache]}

\* loadData(city, force) of the current render, on the queued state p
LoadData(p, city, force) ==
  /\ IsCacheHit(cache, city, force) \/ nCalls < MaxCalls
  /\ pending' = LoadDataState(p, city, force)
  /\ inflight' = LoadDataCalls(city, force)
  /\ nCalls' = IF IsCacheHit(cache, city, force) THEN nCalls ELSE nCalls + 1

\* App is at rest: no call is outstanding, no update is queued and no effect
\* is to run
AtRest ==
  /\ inflight = {}
  /\ effects = {}
  /\ pending = [selectedCity |-> selectedCity, viewMode |-> viewMode,
                cache |-> cache, cacheSet |-> FALSE,
                loading |-> loading, error |-> error]

\* React renders the queued state; the effects whose dependencies changed
\* are scheduled: [cache] for the persistence effect, [selectedCity,
\* loadData] for the load effect, loadData changing with cache
Render ==
  /\ mounted
  /\ effects = {}
  /\ \/ pending.cacheSet
     \/ pending # [selectedCity |-> selectedCity, viewMode |-> viewMode,
                   cache |-> cache, cacheSet |-> FALSE,
                   loading |-> loading, error |-> error]
  /\ selectedCity' = pending.selectedCity
  /\ viewMode' = pending.viewMode
  /\ cache' = pending.cache
  /\ loading' = pending.loading
  /\ error' = pending.error
  /\ pending' = [pending EXCEPT !.cacheSet = FALSE]
  /\ effects' = (IF pending.cacheSet THEN {"persist", "load"} ELSE {})
                \cup (IF pending.selectedCity # selectedCity
                      THEN {"load"} ELSE {})
  /\ loadCause' = IF pending.selectedCity # selectedCity THEN "select"
                  ELSE IF pending.cacheSet THEN "cache"
                  ELSE "none"
  /\ flushSync' = FALSE
  /\ UNCHANGED <<inflight, nCalls, now, storage, mounted, lastDone, overtaken>>
  /\ firedEarly' = (firedEarly /\ ~ AtRest')
  /\ UNCHANGED notApp

\* localStorage.setItem either stores the value or throws (quota exceeded,
\* storage not available)
SetItemOutcomes == {"stored", "throws"}

\* localStorage[CACHE_KEY] after localStorage.setItem(CACHE_KEY, value)
setItem(w, value) == IF w = "stored" THEN <<value>> ELSE storage

\* the effects of the last render run, in the order of their declaration:
\* localStorage.setItem(CACHE_KEY, JSON.stringify(cache)), then
\* loadData(selectedCity).  No handler catches what setItem throws: the
\* error leaves the effect, React unmounts the tree, and the effects after
\* it run or not
RunEffects(w) ==
  /\ mounted
  /\ effects # {}
  /\ w = "throws" => "persist" \in effects
  /\ storage' = IF "persist" \in effects
                THEN setItem(w, JSON_stringify(cache))
                ELSE storage
  /\ mounted' = (w = "stored")
  /\ \/ /\ "load" \in effects
        /\ LoadData(pending, selectedCity, FALSE)
     \/ /\ "load" \notin effects \/ w = "throws"
        /\ UNCHANGED <<pending, inflight, nCalls>>
  /\ effects' = {}
  /\ loadCause' = "none"
  /\ UNCHANGED <<selectedCity, viewMode, cache, loading, error, flushSync,
                 now, lastDone, overtaken>>
  /\ firedEarly' = (firedEarly /\ ~ AtRest')
  /\ UNCHANGED notApp

\* the effects run, with either outcome of the write
FlushEffects == \E w \in SetItemOutcomes : RunEffects(w)

\* a city button, disabled={loading}: handleCityChange(city)
ClickCity(city) ==
  /\ mounted
  /\ ~ loading
  /\ ~ flushSync
  /\ city # selectedCity
  /\ pending' = [pending EXCEPT !.selectedCity = city,
                                !.viewMode = IF viewMode = "compare"
                                             THEN "flow" ELSE @]
  /\ flushSync' = TRUE
  /\ firedEarly' = (firedEarly \/ pending.loading \/ "load" \in effects)
  /\ UNCHANGED <<selectedCity, viewMode, cache, loading, error, effects,
                 inflight, nCalls, now, storage, mounted, lastDone, overtaken,
                 loadCause>>
  /\ UNCHANGED notApp

\* the two view buttons: setViewMode(mode)
ClickViewMode(mode) ==
  /\ mounted
  /\ ~ flushSync
  /\ mode # pending.viewMode
  /\ pending' = [pending EXCEPT !.viewMode = mode]
  /\ flushSync' = TRUE
  /\ UNCHANGED <<selectedCity, viewMode, cache, loading, error, effects,
                 inflight, nCalls, now, storage, mounted, lastDone, overtaken,
                 loadCause,
                 firedEarly>>
  /\ UNCHANGED notApp

\* handleRefresh: loadData(selectedCity, true)
handleRefresh ==
  /\ mounted
  /\ LoadData(pending, selectedCity, TRUE)
  /\ flushSync' = TRUE
  /\ firedEarly' = (firedEarly \/ pending.loading \/ "load" \in effects)
  /\ UNCHANGED <<selectedCity, viewMode, cache, loading, error, effects,
                 now, storage, mounted, lastDone, overtaken,
                 loadCause>>
  /\ UNCHANGED notApp

\* the refresh button of the header, disabled={loading}
ClickRefresh ==
  /\ ~ loading
  /\ ~ flushSync
  /\ handleRefresh

\* the retry button of the error panel, shown in the flow view when not
\* loading, with an error and no entry for the selected city
ClickRetry ==
  /\ viewMode = "flow"
  /\ ~ loading
  /\ Len(error) > 0
  /\ ~ HasEntry(cache, selectedCity)
  /\ ~ flushSync
  /\ handleRefresh

\* how the forced call r stands to the forced calls for its city that have
\* succeeded while it was outstanding: there is none, or r was started
\* before all of them, or after one of them
RaceOf(r) ==
  LET by == { p[2] : p \in { x \in overtaken : x[1] = r.id } }
  IN  IF by = {} THEN "no"
      ELSE IF \A b \in by : r.id < b THEN "startedFirst"
      ELSE "startedLast"

\* the record of a settled call: its city, its force flag, its outcome, and
\* the other cities that got their entry while the call was outstanding
Settled(r, ok) ==
  [city |-> r.city, force |-> r.force, ok |-> ok,
   during |-> (DOMAIN pending.cache \ DOMAIN r.closure) \ {r.city},
   raced |-> IF ok THEN RaceOf(r) ELSE "no"]

\* the pairs of overtaken once r has settled: r is outstanding no more, and
\* a forced r that succeeds overtakes the forced calls for its city
Overtaking(r, ok) ==
  { p \in overtaken : p[1] # r.id }
  \cup (IF ok /\ r.force
        THEN { <<q.id, r.id>> :
                 q \in { x \in inflight \ {r} : x.force /\ x.city = r.city } }
        ELSE {})

\* await fetchCityBudget(city) resolves with result; Date.now() reads t, a
\* time not before the last reading
FetchResolve(r, result, t) ==
  /\ mounted
  /\ ~ flushSync
  /\ t >= now
  /\ now' = t
  /\ pending' = OnFetchSuccess(pending, r.closure, r.city, result, t)
  /\ inflight' = inflight \ {r}
  /\ lastDone' = <<Settled(r, TRUE)>>
  /\ overtaken' = Overtaking(r, TRUE)
  /\ UNCHANGED <<selectedCity, viewMode, cache, loading, error, flushSync,
                 effects, nCalls, storage, mounted, loadCause>>
  /\ firedEarly' = (firedEarly /\ ~ AtRest')
  /\ UNCHANGED notApp

\* await fetchCityBudget(city) rejects with failure f
FetchReject(r, f) ==
  /\ mounted
  /\ ~ flushSync
  /\ pending' = OnFetchFailure(pending, r.city, ThrownMessage(f))
  /\ inflight' = inflight \ {r}
  /\ lastDone' = <<Settled(r, FALSE)>>
  /\ overtaken' = Overtaking(r, FALSE)
  /\ UNCHANGED <<selectedCity, viewMode, cache, loading, error, flushSync,
                 effects, nCalls, now, storage, mounted, loadCause>>
  /\ firedEarly' = (firedEarly /\ ~ AtRest')
  /\ UNCHANGED notApp

Next ==
  \/ Render
  \/ FlushEffects
  \/ \E city \in Cities : ClickCity(city)
  \/ \E mode \in {"flow", "compare"} : ClickViewMode(mode)
  \/ ClickRetry
  \/ ClickRefresh
  \/ \E r \in inflight : \E result \in FetchedBudgets : \E t \in 0..MaxNow :
       FetchResolve(r, result, t)
  \/ \E r \in inflight : \E f \in Failures : FetchReject(r, f)

Spec == Init /\ [][Next]_vars

(***************************************************************************)
(* App: the start, from any content of localStorage                        *)
(***************************************************************************)
\* texts that are not JSON, and the JSON texts of values that are no objects
StartTexts == {"", "{", "undefined", "{nodes"} \cup DOMAIN ParsedText

\* what the member of a city can be in a blob that is the JSON of an object:
\* an entry as App writes it, null, a number, {} or []
StartEntries == {CacheEntry(StoredBudget, 0), Null, Num(5), <<>>, Arr(<<>>)}

\* localStorage[CACHE_KEY] when App starts: no item, a text, or the JSON of
\* an object with members for some cities
StartStorage ==
  {<<>>}
  \cup { <<RawText(x)>> : x \in StartTexts }
  \cup { <<JSON_stringify(c)>> :
           c \in UNION { [S -> StartEntries] : S \in SUBSET Cities } }

StartInit ==
  /\ ChartIdle
  /\ ServiceIdle
  /\ CompareIdle
  /\ storage \in StartStorage
  /\ startPhase = "start"
  /\ selectedCity = "Setagaya"
  /\ viewMode = "flow"
  /\ cache = <<>>
  /\ loading = FALSE
  /\ error = <<>>
  /\ pending = [selectedCity |-> "Setagaya", viewMode |-> "flow", cache |-> <<>>,
                cacheSet |-> FALSE, loading |-> FALSE, error |-> <<>>]
  /\ flushSync = FALSE
  /\ effects = {}
  /\ inflight = {}
  /\ nCalls = 0
  /\ now = 0
  /\ mounted = FALSE
  /\ lastDone = <<>>
  /\ overtaken = {}
  /\ loadCause = "none"
  /\ firedEarly = FALSE

\* the useState initializer of cache runs
UseStateCache ==
  /\ startPhase = "start"
  /\ cache' = InitialCache(storage)
  /\ pending' = [pending EXCEPT !.cache = cache']
  /\ startPhase' = "initialized"
  /\ UNCHANGED <<selectedCity, viewMode, loading, error, flushSync, effects,
                 inflight, nCalls, now, storage, mounted, lastDone, overtaken,
                 loadCause,
                 firedEarly>>
  /\ UNCHANGED notStart

\* the body of App runs to its end for the first time and its two effects
\* are scheduled, or it throws and nothing is mounted
FirstRender ==
  /\ startPhase = "initialized"
  /\ IF RenderThrows(cache, selectedCity)
     THEN /\ startPhase' = "failed"
          /\ UNCHANGED <<mounted, effects, loadCause>>
     ELSE /\ startPhase' = "rendered"
          /\ mounted' = TRUE
          /\ effects' = {"persist", "load"}
          /\ loadCause' = "mount"
  /\ UNCHANGED <<selectedCity, viewMode, cache, loading, error, pending,
                 flushSync, inflight, nCalls, now, storage, lastDone, overtaken,
                 firedEarly>>
  /\ UNCHANGED notStart

StartNext == UseStateCache \/ FirstRender

SpecStart == StartInit /\ [][StartNext]_vars

(***************************************************************************)
(* fetchCityBudget: from the response of generateContent to its result     *)
(***************************************************************************)
\* generateContent has resolved with a text
ExInit ==
  /\ ChartIdle
  /\ AppIdle
  /\ CompareIdle
  /\ startPhase = "start"
  /\ responseText \in ResponseTexts
  /\ exPhase = "received"
  /\ extracted = <<>>

\* lines 51-86 run to the return
ExtractReturn ==
  /\ exPhase = "received"
  /\ "thrown" \notin DOMAIN fetchCityBudget(responseText, GroundingChunks)
  /\ extracted' = <<fetchCityBudget(responseText, GroundingChunks)>>
  /\ exPhase' = "returned"
  /\ UNCHANGED responseText
  /\ UNCHANGED notService

\* lines 51-86 throw, and the catch at line 87 throws the error again
ExtractThrow ==
  /\ exPhase = "received"
  /\ "thrown" \in DOMAIN fetchCityBudget(responseText, GroundingChunks)
  /\ extracted' = <<fetchCityBudget(responseText, GroundingChunks)>>
  /\ exPhase' = "thrown"
  /\ UNCHANGED responseText
  /\ UNCHANGED notService

ExNext == ExtractReturn \/ ExtractThrow

SpecEx == ExInit /\ [][ExNext]_vars

(***************************************************************************)
(* BudgetComparisonChart: the first render with any cache prop             *)
(***************************************************************************)
\* BudgetComparisonChart is about to render with its props
AggInit ==
  /\ ChartIdle
  /\ AppIdle
  /\ ServiceIdle
  /\ startPhase = "start"
  /\ compareCache \in CompareCaches
  /\ aggPhase = "props"
  /\ chartData = <<>>
  /\ uniqueCategoryNames = <<>>
  /\ prevNames = <<>>

\* the first render: useMemo computes chartData and uniqueCategoryNames
UseMemoChartData ==
  /\ aggPhase = "props"
  /\ ~ ChartDataThrows(compareCache, cities)
  /\ chartData' = AggregationEngine(compareCache, cities)
  /\ uniqueCategoryNames' = UniqueNames(chartData')
  /\ aggPhase' = "memo"
  /\ UNCHANGED <<compareCache, prevNames>>
  /\ UNCHANGED notCompare

\* App has put the result of a fetch into the cache and renders again: the
\* cache prop is a new object, so chartData is a new array and both memos
\* are computed again
CacheChanged(city, g) ==
  /\ aggPhase = "memo"
  /\ compareCache' =
       CacheUpdater(compareCache, compareCache, city,
                    CacheEntry(BudgetResponse(g, "parsed"), 0))
  /\ chartData' =
       useMemo(AggregationEngine(compareCache', cities), TRUE, chartData)
  /\ uniqueCategoryNames' =
       useMemo(UniqueNames(chartData'), TRUE, uniqueCategoryNames)
  /\ prevNames' = uniqueCategoryNames
  /\ UNCHANGED aggPhase
  /\ UNCHANGED notCompare

\* the callback of useMemo throws: the render of BudgetComparisonChart fails
UseMemoThrows ==
  /\ aggPhase = "props"
  /\ ChartDataThrows(compareCache, cities)
  /\ aggPhase' = "thrown"
  /\ UNCHANGED <<compareCache, chartData, uniqueCategoryNames, prevNames>>
  /\ UNCHANGED notCompare

AggNext ==
  \/ UseMemoChartData
  \/ UseMemoThrows
  \/ \E city \in Cities, g \in ChangedGraphs : CacheChanged(city, g)

SpecAgg == AggInit /\ [][AggNext]_vars

(***************************************************************************)
(* Properties of the link pre-processing                                   *)
(***************************************************************************)
\* the (source, target) pairs of a link list
Edges(ls) == { <<ls[k].source, ls[k].target>> : k \in 1..Len(ls) }

\* the nodes reached from the nodes of S along one or more edges of E
RECURSIVE ReachedFrom(_, _, _)
ReachedFrom(E, S, seen) ==
  LET step == { e[2] : e \in { d \in E : d[1] \in S } } \ seen
  IN  IF step = {} THEN seen ELSE ReachedFrom(E, step, seen \cup step)

\* a path of one or more edges of E leads from s to t
HasPath(E, s, t) == t \in ReachedFrom(E, {s}, {})

\* no node of the link list lies on a directed cycle
Acyclic(ls) == \A e \in Edges(ls) : ~ HasPath(Edges(ls), e[1], e[1])

\* the validator has produced validLinks
Validated == gvPhase \in {"validated", "revalidated", "reordered"}

\* a is b with some elements left out
RECURSIVE IsSubSeq(_, _)
IsSubSeq(a, b) ==
  IF Len(a) = 0 THEN TRUE
  ELSE IF Len(b) = 0 THEN FALSE
  ELSE IF Head(a) = Head(b) THEN IsSubSeq(Tail(a), Tail(b))
  ELSE IsSubSeq(a, Tail(b))

\* the candidates of data.links that are neither self-loops nor dangling
Wellformed(d) ==
  SelectSeq(d.links, LAMBDA l : l.source # l.target
                                /\ l.source \in nodesMap(d)
                                /\ l.target \in nodesMap(d))

\* C1: the links the validator outputs form an acyclic directed graph, for
\* every node set and every candidate list (also when the validator is run
\* on its own output or on the reordered candidates).
C1_Acyclic ==
  /\ Validated => Acyclic(validLinks)
  /\ gvPhase = "revalidated" => Acyclic(revalidated)
  /\ gvPhase = "reordered" => Acyclic(validReordered)

\* C1 witness: candidates with a cycle among well-formed links were
\* validated and several of them were kept.
C1_Witness ==
  /\ gvPhase = "validated"
  /\ ~ Acyclic(Wellformed(data))
  /\ Len(validLinks) >= 2

\* C2: the output holds no link with source = target and no link whose
\* source or target is not the id of a node of the node set.
C2_NoLoopNoDangling ==
  Validated =>
    \A k \in 1..Len(validLinks) :
      /\ validLinks[k].source # validLinks[k].target
      /\ validLinks[k].source \in nodesMap(data)
      /\ validLinks[k].target \in nodesMap(data)

\* C2 witness: a candidate list with a self-loop and a link to an id outside
\* the node set was validated, and a link was kept.
C2_Witness ==
  /\ gvPhase = "validated"
  /\ \E k \in 1..Len(data.links) : data.links[k].source = data.links[k].target
  /\ \E k \in 1..Len(data.links) :
       /\ data.links[k].source \in nodesMap(data)
       /\ data.links[k].target \notin nodesMap(data)
  /\ Len(validLinks) >= 1

\* C3: the validator only filters: validLinks is a subsequence of data.links
\* (kept links unchanged, in order), the layout gets the node list unchanged
\* and exactly the kept links, every graph with nodes is processed without
\* failure, and no step changes the data prop.
C3_OnlyFilters ==
  /\ [](Validated => /\ IsSubSeq(validLinks, data.links)
                     /\ layoutNodes = data.nodes
                     /\ layoutLinks = validLinks)
  /\ []((gvPhase = "mounted" /\ Len(data.nodes) > 0) => ENABLED EffectRun)
  /\ [][data' = data]_vars

\* C3 witness: a list of candidates with different values was validated,
\* some candidate was dropped and some kept.
C3_Witness ==
  /\ gvPhase = "validated"
  /\ Len(validLinks) >= 2
  /\ Len(validLinks) < Len(data.links)
  /\ validLinks[1].value # validLinks[2].value

\* C4: running the validator on its own output with the same node set
\* yields that output again: same links, same order.
C4_Idempotent == gvPhase = "revalidated" => revalidated = validLinks

\* C4 witness: the validator was run again on an output of several distinct
\* links that differs from the candidate list.
C4_Witness ==
  /\ gvPhase = "revalidated"
  /\ Len(validLinks) >= 2
  /\ validLinks[1] # validLinks[2]
  /\ Len(validLinks) < Len(data.links)

\* the first n candidates of a graph
Prefix(d, n) == SankeyData(d.nodes, SubSeq(d.links, 1, n))

\* C5: Scenario A yields exactly its first two links; in general the links
\* kept among the first n candidates stay kept, in place, whatever follows,
\* and a well-formed candidate that closes a cycle with the links kept
\* before it is not kept.
C5_ScenarioA ==
  /\ (Validated /\ data = ScenarioA) =>
        validLinks = << SankeyLink("rev_a", "exp_c", 100),
                        SankeyLink("rev_b", "exp_c", 50) >>
  /\ Validated =>
       \A n \in 1..Len(data.links) :
         LET before == GraphValidator(Prefix(data, n - 1))
             upto   == GraphValidator(Prefix(data, n))
             link   == data.links[n]
         IN  /\ SubSeq(validLinks, 1, Len(upto)) = upto
             /\ SubSeq(upto, 1, Len(before)) = before
             /\ ( /\ link.source # link.target
                  /\ link.source \in nodesMap(data)
                  /\ link.target \in nodesMap(data)
                  /\ HasPath(Edges(before), link.target, link.source) )
                => upto = before

\* C5 witness: Scenario A was validated.
C5_Witness == gvPhase = "validated" /\ data = ScenarioA

\* the set of links of a list
LinkSet(ls) == { ls[k] : k \in 1..Len(ls) }

\* two candidates between two nodes, one in each direction
IsTwoCycle(d) ==
  /\ Len(d.links) = 2
  /\ d.links[1].source # d.links[1].target
  /\ d.links[1].source = d.links[2].target
  /\ d.links[1].target = d.links[2].source
  /\ d.links[1].source \in nodesMap(d)
  /\ d.links[1].target \in nodesMap(d)

\* C6: the result depends on the candidate order: of two opposite links
\* between two nodes the one that comes first is accepted and the other
\* rejected, so the two orders of the same candidates give different sets
\* of accepted links.
C6_OrderDependent ==
  (gvPhase = "reordered" /\ IsTwoCycle(data)) =>
     /\ validLinks = <<data.links[1]>>
     /\ validReordered = <<data.links[2]>>
     /\ LinkSet(validLinks) # LinkSet(validReordered)

\* C6 witness: the two orders of one pair of opposite links were validated
\* and the accepted sets differ.
C6_Witness ==
  /\ gvPhase = "reordered"
  /\ IsTwoCycle(data)
  /\ LinkSet(reordered) = LinkSet(data.links)
  /\ LinkSet(validLinks) # LinkSet(validReordered)

(***************************************************************************)
(* Properties of the cache of App                                          *)
(***************************************************************************)
\* a fetchCityBudget call settles in this step
Settles(r) == r \in inflight /\ r \notin inflight'

C8_FailureKeepsCache ==
  [][ \A r \in inflight : \A f \in Failures :
        FetchReject(r, f) =>
          /\ cache' = cache
          /\ pending'.cache = pending.cache
          /\ pending'.cacheSet = pending.cacheSet
          /\ storage' = storage
          /\ Len(pending'.error) = 1
          /\ pending'.error[1].isQuota = (f \in {"status_429", "quota_message"})
    ]_vars

\* C8 witness: a forced refresh of a cached city has failed with a quota
\* error; the error is rendered and both cities still have their entry.
C8_Witness ==
  /\ Len(lastDone) = 1
  /\ ~ lastDone[1].ok
  /\ lastDone[1].force
  /\ lastDone[1].city = selectedCity
  /\ Len(error) = 1
  /\ error[1].isQuota
  /\ DOMAIN cache = Cities
  /\ pending.cache = cache

C10_ResolveWritesOneKey ==
  [][ /\ \A r \in inflight : \A b \in FetchedBudgets : \A t \in 0..MaxNow :
           FetchResolve(r, b, t) =>
             /\ DOMAIN pending'.cache = DOMAIN pending.cache \cup {r.city}
             /\ pending'.cache[r.city] = CacheEntry(b, now')
             /\ now' >= now
             /\ \A k \in DOMAIN pending.cache \ {r.city} :
                  pending'.cache[k] = pending.cache[k]
      /\ Render => cache' = pending.cache
    ]_vars

\* C10 witness: a fetch has succeeded after another city got its entry
\* while the fetch was outstanding, and the rendered cache holds both.
C10_Witness ==
  /\ Len(lastDone) = 1
  /\ lastDone[1].ok
  /\ lastDone[1].during # {}
  /\ HasEntry(cache, lastDone[1].city)
  /\ \A k \in lastDone[1].during : HasEntry(cache, k)
  /\ cache = pending.cache

\* C11: two forced calls for one city can be outstanding together and each
\* is a fetchCityBudget call of its own (a forced click while a forced call
\* for the city is outstanding starts one more call); when a forced call
\* succeeds after a forced call for the same city has succeeded while it was
\* outstanding, the queued entry of the city is exactly the result of the
\* call that succeeds now, with its timestamp, whichever call was started
\* first.
C11_LastWriteWins ==
  /\ [](\A q1 \in inflight : \A q2 \in inflight :
          /\ q1.id = q2.id => q1 = q2
          /\ q1.id <= nCalls)
  /\ [][ /\ ((ClickRefresh \/ ClickRetry)
               /\ \E q \in inflight : q.force /\ q.city = selectedCity)
              => /\ Cardinality(inflight') = Cardinality(inflight) + 1
                 /\ nCalls' = nCalls + 1
         /\ \A r \in inflight : \A b \in FetchedBudgets : \A t \in 0..MaxNow :
              (FetchResolve(r, b, t) /\ RaceOf(r) # "no")
                => /\ pending'.cache[r.city] = CacheEntry(b, t)
                   /\ lastDone'[1].raced = RaceOf(r)
       ]_vars

\* C11 witness: of two forced calls for one city outstanding together the
\* one started last has succeeded first and the one started first has
\* succeeded after it; no call is outstanding and the cache is rendered.
C11_Witness ==
  /\ Len(lastDone) = 1
  /\ lastDone[1].ok
  /\ lastDone[1].force
  /\ lastDone[1].raced = "startedFirst"
  /\ inflight = {}
  /\ HasEntry(cache, lastDone[1].city)
  /\ cache = pending.cache

\* a cache update has not reached localStorage yet: it is queued and not
\* rendered, or the persistence effect of its render has not run
PersistPending ==
  \/ "persist" \in effects
  \/ pending.cacheSet
  \/ pending.cache # cache

\* localStorage holds a blob that JSON.parse turns into the rendered cache
StorageIsCache == Len(storage) = 1 /\ JSON_parse(storage[1]) = cache

C14_WriteFailureKeepsEntry ==
  [][ RunEffects("throws")
        => /\ mounted'
           /\ cache' = cache
           /\ pending'.cache = pending.cache ]_vars

(***************************************************************************)
(* Properties of the start of App                                          *)
(***************************************************************************)
\* e has the members of a cache entry
IsBudgetResult(e) ==
  IsObject(e) /\ {"data", "explanation", "sources", "timestamp"} \subseteq DOMAIN e

\* v is a mapping from cities to cache entries
IsCacheMapping(v) ==
  /\ IsObject(v)
  /\ \A k \in DOMAIN v : k \in Cities /\ IsBudgetResult(v[k])

\* the item is absent, or not JSON, or JSON of something else than a mapping
\* from cities to cache entries
Corrupt(saved) ==
  \/ Len(saved) = 0
  \/ ~ IsJSON(saved[1])
  \/ ~ IsCacheMapping(JSON_parse(saved[1]))

\* C13 as stated: when the persisted item is absent or corrupt, the first
\* render, with its first read of the cache, does not throw, and the cache
\* it renders is empty: it yields no entry for any city.
C13_CorruptStartsEmpty ==
  (Corrupt(storage) /\ startPhase \in {"rendered", "failed"})
    => /\ startPhase = "rendered"
       /\ \A k \in Cities : ~ Truthy(Member(cache, k))

\* the graph would leave the link pre-processing of SankeyChart as it is
PassesValidator(g) == Len(g.nodes) = 0 \/ GraphValidator(g) = g.links

\* C15 as stated: each cached entry's link list has no link with an endpoint
\* missing from its node list, no self-loop and no directed cycle, that is,
\* it is what GraphValidator makes of it.
C15_CachedGraphsValidated ==
  \A k \in DOMAIN cache :
    LET g == cache[k].data
    IN  /\ \A i \in 1..Len(g.links) :
             /\ ~ IsSelfLoop(g.links[i])
             /\ ~ IsDangling(nodesMap(g), g.links[i])
        /\ Acyclic(g.links)
        /\ PassesValidator(g)

(***************************************************************************)
(* Properties of the extraction in fetchCityBudget                         *)
(***************************************************************************)
\* the text has a brace that opens and, after it, a brace that closes
HasBlock(t) ==
  \E i \in 1..Len(t) : \E j \in (i + 1)..Len(t) : t[i] = "{" /\ t[j] = "}"

\* the first brace that opens, the last brace that closes
BlockFrom(t) ==
  CHOOSE i \in 1..Len(t) : t[i] = "{" /\ \A k \in 1..(i - 1) : t[k] # "{"
BlockTo(t) ==
  CHOOSE j \in 1..Len(t) : t[j] = "}" /\ \A k \in (j + 1)..Len(t) : t[k] # "}"

\* the positions between them
Inside(t) == (BlockFrom(t) + 1)..(BlockTo(t) - 1)

\* the text between them is the JSON of an object
BlockDecodes(t) ==
  HasBlock(t) /\ \A k \in Inside(t) : t[k] \in MemberPieces \cup {" "}

\* the text before the block followed by the text after it
Outside(t) ==
  SubSeq(t, 1, BlockFrom(t) - 1) \o SubSeq(t, BlockTo(t) + 1, Len(t))

\* r is s without the whitespace at its two ends
IsTrimOf(r, s) ==
  \E i \in 1..(Len(s) + 1) : \E j \in 0..Len(s) :
    /\ r = SubSeq(s, i, j)
    /\ \A k \in 1..(i - 1) : s[k] = " "
    /\ \A k \in (j + 1)..Len(s) : s[k] = " "
    /\ Len(r) > 0 => (r[1] # " " /\ r[Len(r)] # " ")

\* the piece of the block that decides a member: the last one that has it
LastPiece(t, pieces) ==
  LET ks == { k \in Inside(t) : t[k] \in pieces }
  IN  IF ks = {} THEN "none" ELSE t[Greatest(ks)]

\* fetchCityBudget has run on the text
Extracted == exPhase \in {"returned", "thrown"}

\* the graph without nodes and links
EmptyGraph == SankeyData(<<>>, <<>>)

\* C16 as stated: the extraction never throws, whatever the text, and when
\* the decoded payload has no nodes, or nodes that are no array, the nodes
\* of the graph are the empty list (and so for the links).
C16_NeverRaises ==
  /\ exPhase # "thrown"
  /\ (exPhase = "returned" /\ BlockDecodes(responseText))
       => /\ LastPiece(responseText, {"nodes_5", "graph"}) \in {"none", "nodes_5"}
               => extracted[1].data.nodes = <<>>
          /\ LastPiece(responseText, {"graph"}) = "none"
               => extracted[1].data.links = <<>>

C18_NoBlock ==
  (Extracted /\ ~ HasBlock(responseText))
    => /\ exPhase = "returned"
       /\ extracted[1].data = EmptyGraph
       /\ extracted[1].explanation = responseText

\* C18 witness: a text with prose, a member and both braces in the wrong
\* order was extracted.
C18_Witness ==
  /\ exPhase = "returned"
  /\ ~ HasBlock(responseText)
  /\ \E i \in 1..Len(responseText) : \E j \in (i + 1)..Len(responseText) :
       responseText[i] = "}" /\ responseText[j] = "{"
  /\ \E k \in 1..Len(responseText) : responseText[k] = "x"
  /\ \E k \in 1..Len(responseText) : responseText[k] = "foo"
  /\ extracted[1].explanation = responseText

RECURSIVE SumValues(_)
SumValues(s) == IF s = <<>> THEN 0 ELSE Head(s).value + SumValues(Tail(s))

\* the cached links of a city whose source id starts with rev_
RevenueLinks(city) ==
  IF Truthy(Member(compareCache, city))
  THEN SelectSeq(compareCache[city].data.links,
                 LAMBDA l : startsWith_rev(l.source))
  ELSE <<>>

\* the rows of chartData for a city
RowsOf(city) == {i \in DOMAIN chartData : chartData[i].city = city}

C20_BucketsSumToRevenue ==
  aggPhase = "memo" =>
    \A city \in Cities :
      /\ Cardinality(RowsOf(city)) = 1
      /\ \A i \in RowsOf(city) :
           LET row == chartData[i]
               B == DOMAIN row.categories
           IN  /\ SumValues(row.categories) = SumValues(RevenueLinks(city))
               /\ row.total = SumValues(RevenueLinks(city))
               /\ \A a, b \in B :
                    row.categories[a].name = row.categories[b].name => a = b
               /\ \A b \in B :
                    row.categories[b].value =
                      SumValues(SelectSeq(RevenueLinks(city),
                        LAMBDA l :
                          SourceName(compareCache[city].data.nodes, l)
                            = row.categories[b].name))

\* two revenue links of one bucket and a link of another source: the row
\* of the city holds the one bucket with the sum of the two
C20_Witness ==
  /\ aggPhase = "memo"
  /\ Truthy(Member(compareCache, "Minato"))
  /\ compareCache["Minato"].data.links =
       << SankeyLink("rev_a", "exp_c", 100), SankeyLink("rev_b", "exp_c", 30),
          SankeyLink("exp_c", "rev_a", 999) >>
  /\ \E i \in DOMAIN chartData :
       chartData[i] = [city |-> "Minato", total |-> 130,
                       categories |-> <<[name |-> "tax", value |-> 130]>>]

(***************************************************************************)
(* C21: a city with no cached entry, and a city whose cached graph has no  *)
(* link with a source that starts with rev_, gets a row of total 0 with no *)
(* bucket, and chartData throws for no cache in which cities are absent.   *)
(***************************************************************************)
\* some city has no entry in the cache prop
SomeAbsent == \E city \in Cities : city \notin DOMAIN compareCache

C22_OneRowEachSortedByTotal ==
  aggPhase = "memo" =>
    /\ Len(chartData) = Len(cities)
    /\ \A k \in DOMAIN cities : Cardinality(RowsOf(cities[k])) = 1
    /\ \A i, j \in DOMAIN chartData :
         i < j => chartData[i].total >= chartData[j].total

\* both cities are cached and the sort has exchanged them: the city that is
\* second in the list has the larger total and comes first
C22_Witness ==
  /\ aggPhase = "memo"
  /\ DOMAIN compareCache = Cities
  /\ Len(chartData) = 2
  /\ chartData[1].city = cities[2]
  /\ chartData[2].city = cities[1]
  /\ chartData[1].total > chartData[2].total
  /\ chartData[2].total > 0

(***************************************************************************)
(* C23: after the first render and after every change of the cache,        *)
(* uniqueCategoryNames holds exactly the names of the buckets of the       *)
(* aggregation of the current cache, each once and in ascending order; no  *)
(* name of an overwritten entry is left.                                   *)
(***************************************************************************)
\* the elements of a sequence
Range(s) == { s[i] : i \in DOMAIN s }

C23_NamesOfCurrentCache ==
  aggPhase = "memo" =>
    /\ Range(uniqueCategoryNames) =
         BucketNames(AggregationEngine(compareCache, cities))
    /\ \A i, j \in DOMAIN uniqueCategoryNames :
         i < j => Rank(uniqueCategoryNames[i]) < Rank(uniqueCategoryNames[j])

\* an entry has been overwritten and a name that was a bucket's before is
\* none now, while two names are left
C23_Witness ==
  /\ aggPhase = "memo"
  /\ Len(uniqueCategoryNames) >= 2
  /\ \E n \in Range(prevNames) : n \notin Range(uniqueCategoryNames)

(***************************************************************************)
(* C24: the validator accepts a candidate (s, t) exactly when s # t, both  *)
(* are ids of nodes, and s is not reached from t along the links accepted  *)
(* before it in the pass; wouldCreateCycle(s, t) is true exactly when such *)
(* a path from t to s exists, and its loop ends for every adjacency the    *)
(* pass builds.                                                            *)
(***************************************************************************)
\* validLinks when the pass has handled the first k candidates
AcceptedUpTo(d, k) ==
  GraphValidator(SankeyData(d.nodes, SubSeq(d.links, 1, k)))

\* adj when validLinks is valid: one push for each accepted link
RECURSIVE AdjOf(_, _, _)
AdjOf(adj, valid, k) ==
  IF k > Len(valid) THEN adj ELSE AdjOf(PushAdj(adj, valid[k]), valid, k + 1)

C24_AcceptsIffNoPathBack ==
  Validated =>
    /\ validLinks = AcceptedUpTo(data, Len(data.links))
    /\ \A k \in DOMAIN data.links :
         LET link == data.links[k]
             before == AcceptedUpTo(data, k - 1)
             after == AcceptedUpTo(data, k)
             adj == AdjOf(EmptyAdj(data), before, 1)
         IN  /\ after \in {before, Append(before, CopyLink(link))}
             /\ after # before <=>
                  /\ link.source # link.target
                  /\ link.source \in nodesMap(data)
                  /\ link.target \in nodesMap(data)
                  /\ ~ HasPath(Edges(before), link.target, link.source)
             /\ \A s, t \in nodesMap(data) :
                  s # t =>
                    /\ wouldCreateCycle(adj, s, t)
                         <=> HasPath(Edges(before), t, s)
                    /\ SearchSteps(adj, s, <<t>>, {}) <= 1 + Len(before)

\* the third candidate was dropped although its opposite link was not
\* accepted: the two links before it lead from its target to its source
C24_Witness ==
  /\ gvPhase = "validated"
  /\ Len(data.links) = 3
  /\ Len(validLinks) = 2
  /\ AcceptedUpTo(data, 2) = validLinks
  /\ data.links[3].source # data.links[3].target
  /\ <<data.links[3].target, data.links[3].source>> \notin Edges(validLinks)
  /\ HasPath(Edges(validLinks), data.links[3].target, data.links[3].source)

(***************************************************************************)
(* C25: the text that is decoded runs from the first brace that opens to   *)
(* the last brace that closes; of several blocks with braces of their own  *)
(* none is decoded alone, only the one span that holds them all.           *)
(***************************************************************************)
\* the positions i..j of the text are a block that is JSON on its own
BlockAt(t, i, j) ==
  /\ i < j
  /\ t[i] = "{"
  /\ t[j] = "}"
  /\ \A k \in (i + 1)..(j - 1) : t[k] \in MemberPieces \cup {" "}

\* the text holds two blocks, one behind the other
TwoBlocks(t) ==
  \E i, j, m, n \in 1..Len(t) : j < m /\ BlockAt(t, i, j) /\ BlockAt(t, m, n)

C25_WidestSpanDecoded ==
  (Extracted /\ HasBlock(responseText))
    => /\ jsonMatch(responseText) =
            <<SubSeq(responseText, BlockFrom(responseText),
                     BlockTo(responseText))>>
       /\ TwoBlocks(responseText)
            => /\ exPhase = "returned"
               /\ extracted[1].data = EmptyGraph
               /\ extracted[1].explanation # <<"e">>
               /\ extracted[1].explanation = ParseErrorPreamble \o responseText
       /\ (exPhase = "returned" /\ BlockDecodes(responseText)
             /\ LastPiece(responseText, {"explanation", "explanation_empty"})
                  = "explanation")
            => extracted[1].explanation = <<"e">>

\* a text of two blocks, the first with an explanation, was extracted: the
\* explanation returned is not the one of the first block
C25_Witness ==
  /\ exPhase = "returned"
  /\ responseText = <<"{", "explanation", "}", "{", "}">>
  /\ extracted[1].explanation = ParseErrorPreamble \o responseText

(***************************************************************************)
(* C26: every link whose source starts with rev_ is grouped under the name *)
(* of its source node, or under the one default name when no node has that *)
(* id, wherever the aggregation is computed: chartData of                  *)
(* BudgetComparisonChart.tsx and chartData of unnamed/part_001 are the     *)
(* same rows, with the same bucket names and values, for the same cache.   *)
(***************************************************************************)
C26_SameBucketsEverywhere ==
  aggPhase = "memo" =>
    /\ chartData = chartData_part001(compareCache, cities)
    /\ \A i \in DOMAIN chartData :
         \A k \in DOMAIN chartData[i].categories :
           LET entry == compareCache[chartData[i].city]
               names == { SourceName(entry.data.nodes, entry.data.links[n]) :
                            n \in DOMAIN entry.data.links }
           IN  chartData[i].categories[k].name \in names

(***************************************************************************)
(* C27: the output of the validator cannot be extended: every candidate    *)
(* that was dropped is a self-loop, has an endpoint that is no node, or    *)
(* would close a directed cycle when added to the final validLinks.        *)
(***************************************************************************)
\* candidate k of the pass was dropped
Dropped(d, k) == AcceptedUpTo(d, k) = AcceptedUpTo(d, k - 1)

\* the link would close a directed cycle among the links ls
ClosesCycle(ls, link) == HasPath(Edges(ls), link.target, link.source)

C27_OutputMaximal ==
  Validated =>
    \A k \in DOMAIN data.links :
      Dropped(data, k) =>
        \/ IsSelfLoop(data.links[k])
        \/ data.links[k].source \notin nodesMap(data)
        \/ data.links[k].target \notin nodesMap(data)
        \/ ClosesCycle(validLinks, data.links[k])

\* a candidate between known nodes was dropped for the cycle it would close,
\* and a later candidate was accepted
C27_Witness ==
  /\ gvPhase = "validated"
  /\ \E k \in DOMAIN data.links :
       /\ Dropped(data, k)
       /\ ~ IsSelfLoop(data.links[k])
       /\ ~ IsDangling(nodesMap(data), data.links[k])
       /\ Len(validLinks) > Len(AcceptedUpTo(data, k))

(***************************************************************************)
(* C28: a settled fetch starts no fetch: the load effect that runs again   *)
(* because the cache has changed finds the entry of the selected city and  *)
(* calls fetchCityBudget not, and a failed fetch is not tried again; every *)
(* call of the load effect comes from the mount or from a selection.       *)
(***************************************************************************)
\* this step is the load effect calling fetchCityBudget
EffectFetches == loadCause # "none" /\ loadCause' = "none" /\ nCalls' = nCalls + 1

C28_SettledFetchStartsNone ==
  [][EffectFetches => loadCause \in {"mount", "select"}]_vars

(***************************************************************************)
(* C29 as stated: the city buttons and the refresh button are disabled and *)
(* the retry button is hidden while loading is true, so at most one call   *)
(* of fetchCityBudget is outstanding at any time.                          *)
(***************************************************************************)
C29_AtMostOneOutstanding == Cardinality(inflight) <= 1

(***************************************************************************)
(* C29 amended: at most one call of fetchCityBudget is outstanding as long *)
(* as none of these controls has fired, since App was last at rest, while  *)
(* setLoading(true) was queued and not yet rendered or while the load      *)
(* effect of the last render had not run yet.                              *)
(***************************************************************************)
C29_OneOutstandingUnlessFiredEarly ==
  ~ firedEarly => Cardinality(inflight) <= 1

\* a refresh was clicked while the controls were enabled and nothing was
\* queued, after a call had settled; its call is the only one outstanding
C29_Witness ==
  /\ ~ firedEarly
  /\ Len(lastDone) = 1
  /\ Cardinality(inflight) = 1
  /\ \E r \in inflight : r.force
  /\ loading

(***************************************************************************)
(* C30: for every city with a cached result, totalBudget of App for that   *)
(* city is the total of the city's row of chartData, whatever the cached   *)
(* graph, also when it has links but none whose source starts with rev_.   *)
(***************************************************************************)
C30_FlowTotalIsChartTotal ==
  aggPhase = "memo" =>
    \A city \in Cities :
      Truthy(Member(compareCache, city)) =>
        \A i \in RowsOf(city) :
          /\ totalBudget(budgetInfo(compareCache, city)) = chartData[i].total
          /\ totalBudget_part002(budgetInfo(compareCache, city))
               = chartData[i].total

====
